---- MODULE Spec2Model ----
(***************************************************************************)
(* Operation execution and lifecycle engine of the linux-update-dashboard: *)
(* the operations table of disktool_core.py, the format worker threads,    *)
(* the SMART trigger, the soft stop, the history clear, the disk sync with *)
(* its auto mode and the poller thread, and the update runs of updater.py, *)
(* as the threads of app.py drive them.                                    *)
(***************************************************************************)
EXTENDS Integers, Sequences, FiniteSets, TLC

\* ------------------------------------------------------------------ bounds
\* at most this many rows are ever inserted into the operations table
MaxOps == 2

\* the clock (whole seconds, as CURRENT_TIMESTAMP has them) stops here
MaxClock == 1

\* at most this many update runs are submitted
MaxRuns == 2
\* an update command prints at most this many lines
MaxLines == 1

\* ------------------------------------------------------------- input sets
\* device names are sequences of characters, so that the allow-list is
\* computed character by character
Sda == <<"s", "d", "a">>
SdaSemi == <<"s", "d", "a", ";">>
DeviceInputs == {Sda, SdaSemi}
\* names lsblk can report
AttachInputs == {Sda, SdaSemi}
FsInputs == {"ext4", "ntfs"}
ModeInputs == {"short", "fast"}
\* what running an external command can come to: exit status 0, a non-zero
\* exit status, or an exception of subprocess.run (no process was started)
CmdOutcomes == {"exit_0", "exit_137", "spawn_error"}
\* the outcomes drawn where no one looks at them
AutoOutcomes == {"exit_0"}
\* request threads of the threaded web server
Requests == {"r1"}
\* request threads that serve the update routes: two, so that two requests
\* for one host can overlap
UpdateRequests == {"r1", "r2"}
\* the thread app.py starts on auto_mode_worker
Poller == "poller"
Threads == Requests \cup UpdateRequests \cup {Poller}
IdInputs == 1..MaxOps
\* hosts.json: display name -> address
HostNames == {"web1", "local"}
hosts == [web1  |-> <<"1","0",".","0",".","0",".","5">>,
          local |-> <<"L","o","c","a","l","H","o","s","t">>]
\* what the ID= line of /etc/os-release can hold ("": nothing was read)
DistroInputs == {"ubuntu", "gentoo", ""}
\* the families get_update_command is called with directly: the six of
\* SUPPORTED_DISTRIBUTIONS, names outside it, another spelling, nothing
FamilyInputs ==
  {"ubuntu", "debian", "fedora", "centos", "arch", "windows",
   "gentoo", "suse", "unknown_family", "unsupported_os", "Ubuntu", ""}

\* ------------------------------------------------------------------ state
VARIABLES
  operations,       \* table operations: id -> [device, action, status, progress]
  sqlite_sequence,  \* AUTOINCREMENT counter of table operations
  created,          \* history: every operation id ever assigned
  disks,            \* table disks: device -> [present, first_seen]
  attached,         \* the disks lsblk reports now
  clock,            \* current time in seconds
  first_attach,     \* history: device -> auto_enabled when it was first attached
  auto_enabled,     \* module global auto_enabled
  workers,          \* format_worker threads: op_id -> [pc, device, fs, rcs]
  pc,               \* thread -> position in its handler
  frame,            \* thread -> local variables of the running call
  executed,         \* device names an external command has been run against
  logs,             \* app.py logs: display name -> its list object (0: no entry)
  lists,            \* the list objects made by the update routes, in creation order
  runs,             \* threads on run_update, in creation order
  sent,             \* calls of send_error_notification, per run
  error_notifications_enabled   \* email_config.get_error_notifications_enabled()

storeVars == <<operations, sqlite_sequence, created>>
diskVars == <<disks, attached, clock, first_attach>>
updVars == <<logs, lists, runs, sent, error_notifications_enabled>>
vars == <<operations, sqlite_sequence, created, disks, attached, clock,
          first_attach, auto_enabled, workers, pc, frame, executed,
          logs, lists, runs, sent, error_notifications_enabled>>

\* the names sanitize_device_name is called with directly: names of disks,
\* names with a character outside the class, with a newline at the end,
\* twice at the end, alone and inside, the longest name and one longer,
\* the empty name ("NUL" stands for the character \x00)
Name255 == [i \in 1..255 |-> "a"]
Name256 == [i \in 1..256 |-> "a"]
NameInputs ==
  { Sda, <<"s","d","b","1">>, <<"n","v","m","e","0","n","1">>,
    <<"L","o","o","p","-","0","_","Z">>, SdaSemi,
    <<"/","d","e","v","/","s","d","a">>, <<"s","d","a"," ">>, <<"s","d","a","NUL">>,
    <<"s","d","a","\n">>, <<"s","d","a","\n","\n">>, <<"\n">>,
    <<"s","d","a","\n","w","h","o">>, << >>,
    Name255, Name256, Name255 \o <<"\n">> }

\* ---------------------------------------------------------- pure functions
Lower == {"a","b","c","d","e","f","g","h","i","j","k","l","m","n","o","p","q","r","s","t","u","v","w","x","y","z"}
Upper == {"A","B","C","D","E","F","G","H","I","J","K","L","M","N","O","P","Q","R","S","T","U","V","W","X","Y","Z"}
Digit == {"0","1","2","3","4","5","6","7","8","9"}
\* the character class [a-zA-Z0-9_-]
SafeChars == Lower \cup Upper \cup Digit \cup {"_", "-"}
MaxNameLen == 255

\* re.match(r'^[a-zA-Z0-9_-]{1,255}$', device): in Python '$' matches at the
\* end of the string and also just before a newline that ends the string
PatternMatches(device) ==
  LET n == Len(device)
      body == IF n > 0 /\ device[n] = "\n" THEN SubSeq(device, 1, n - 1) ELSE device
  IN  /\ Len(body) >= 1
      /\ Len(body) <= MaxNameLen
      /\ \A i \in 1..Len(body) : body[i] \in SafeChars

\* sanitize_device_name: [ok |-> TRUE, value |-> device] or a ValueError
sanitize_device_name(device) ==
  IF device = <<>> THEN [ok |-> FALSE, value |-> "ValueError"]
  ELSE IF ~PatternMatches(device) THEN [ok |-> FALSE, value |-> "ValueError"]
  ELSE [ok |-> TRUE, value |-> device]

\* cmd_map of format_worker: filesystem -> mkfs executable
cmd_map == [ext4 |-> "mkfs.ext4", xfs |-> "mkfs.xfs", fat32 |-> "mkfs.vfat"]

\* str.upper() on the SMART modes
StrUpper(mode) ==
  CASE mode = "short" -> "SHORT"
    [] mode = "long" -> "LONG"
    [] mode = "fast" -> "FAST"
    [] OTHER -> mode

\* AUTO_SKIP_DEVICE = 'mmcblk0'
AUTO_SKIP_DEVICE == <<"m", "m", "c", "b", "l", "k", "0">>

\* line 160: dev == AUTO_SKIP_DEVICE or dev.startswith('nvme')
AutoSkipped(dev) ==
  \/ dev = AUTO_SKIP_DEVICE
  \/ Len(dev) >= 4 /\ SubSeq(dev, 1, 4) = <<"n", "v", "m", "e">>

\* the orders in which a SELECT without ORDER BY can return the rows S
RowOrders(S) ==
  {s \in [1..Cardinality(S) -> S] : \A i, j \in 1..Cardinality(S) : i # j => s[i] # s[j]}

\* str.lower() on the letters the inputs use
UpperCase == <<"A", "B", "C", "D", "E", "F", "G", "H", "I", "J", "K", "L", "M",
               "N", "O", "P", "Q", "R", "S", "T", "U", "V", "W", "X", "Y", "Z">>
LowerCase == <<"a", "b", "c", "d", "e", "f", "g", "h", "i", "j", "k", "l", "m",
               "n", "o", "p", "q", "r", "s", "t", "u", "v", "w", "x", "y", "z">>
lower(s) ==
  [i \in 1..Len(s) |->
     IF \E k \in 1..Len(UpperCase) : UpperCase[k] = s[i]
       THEN LowerCase[CHOOSE k \in 1..Len(UpperCase) : UpperCase[k] = s[i]]
       ELSE s[i]]

LOCALHOST_IDENTIFIERS ==
  { <<"l","o","c","a","l","h","o","s","t">>,
    <<"1","2","7",".","0",".","0",".","1">>,
    <<":",":","1">>,
    <<"0",".","0",".","0",".","0">> }

\* is_localhost as it would be without the call of lower()
is_localhost_exact(host) ==
  IF host = << >> THEN FALSE ELSE host \in LOCALHOST_IDENTIFIERS

is_localhost(host) ==
  IF host = << >> THEN FALSE ELSE lower(host) \in LOCALHOST_IDENTIFIERS

SUPPORTED_DISTRIBUTIONS == {"ubuntu", "debian", "fedora", "centos", "arch", "windows"}

WINDOWS_UPDATE_BASE ==
  <<"Install-PackageProvider", "-Name", "NuGet", "-MinimumVersion",
    "2.8.5.201", "-Force", "-ErrorAction", "SilentlyContinue;",
    "Install-Module", "PSWindowsUpdate", "-Force", "-ErrorAction",
    "SilentlyContinue;", "Import-Module", "PSWindowsUpdate;",
    "Get-WindowsUpdate", "-AcceptAll", "-Install",
    "-AutoReboot:$false">>
\* the winget part as it would be if it were empty
WINDOWS_WINGET_UPDATE_absent == << >>

WINDOWS_WINGET_UPDATE ==
  <<"if", "(Get-Command", "winget", "-ErrorAction",
    "SilentlyContinue)", "{", "winget", "upgrade", "--all",
    "--accept-source-agreements", "--accept-package-agreements",
    "--silent", "}">>

\* get_update_command as it would be without its windows branch
get_update_command_linux(distro, repo_only) ==
  IF distro \in {"ubuntu", "debian", "fedora", "centos", "arch"}
    THEN [ok |-> TRUE, desc |-> "full system update",
          cmd |-> <<"sudo", "apt-get", "upgrade", "-y">>]
    ELSE [ok |-> FALSE, desc |-> "Unsupported distribution", cmd |-> << >>]

\* get_update_command as it would be if an unknown family fell back to apt
get_update_command_guess(distro, repo_only) ==
  [ok |-> TRUE, desc |-> "full system update",
   cmd |-> <<"sudo", "apt-get", "upgrade", "-y">>]

\* the command line as its words: split at the spaces, with the characters
\* = and ' and " as words of their own; ok = FALSE is the ValueError
get_update_command(distro, repo_only) ==
  IF distro \in {"ubuntu", "debian"} THEN
    IF repo_only
      THEN [ok |-> TRUE, desc |-> "repository-only update (preserving config files)",
            cmd |-> <<"sudo", "DEBIAN_FRONTEND", "=", "noninteractive", "apt-get", "update",
                      "&&", "sudo", "DEBIAN_FRONTEND", "=", "noninteractive", "apt-get",
                      "upgrade", "-y", "-o", "Dpkg::Options::", "=", "'",
                      "--force-confold", "'">>]
      ELSE [ok |-> TRUE, desc |-> "full system update",
            cmd |-> <<"sudo", "DEBIAN_FRONTEND", "=", "noninteractive", "apt-get", "update",
                      "&&", "sudo", "DEBIAN_FRONTEND", "=", "noninteractive", "apt-get",
                      "upgrade", "-y", "&&", "sudo", "DEBIAN_FRONTEND", "=", "noninteractive",
                      "apt-get", "dist-upgrade", "-y">>]
  ELSE IF distro = "fedora" THEN
    IF repo_only
      THEN [ok |-> TRUE, desc |-> "repository-only update (preserving config files)",
            cmd |-> <<"sudo", "dnf", "upgrade", "-y",
                      "--setopt", "=", "tsflags", "=", "noscripts">>]
      ELSE [ok |-> TRUE, desc |-> "full system update",
            cmd |-> <<"sudo", "dnf", "upgrade", "-y">>]
  ELSE IF distro = "centos" THEN
    IF repo_only
      THEN [ok |-> TRUE, desc |-> "repository-only update (preserving config files)",
            cmd |-> <<"sudo", "yum", "update", "-y",
                      "--setopt", "=", "tsflags", "=", "noscripts">>]
      ELSE [ok |-> TRUE, desc |-> "full system update",
            cmd |-> <<"sudo", "yum", "update", "-y">>]
  ELSE IF distro = "arch" THEN
    IF repo_only
      THEN [ok |-> TRUE, desc |-> "repository-only update",
            cmd |-> <<"sudo", "pacman", "-Syu", "--noconfirm", "--needed">>]
      ELSE [ok |-> TRUE, desc |-> "full system update",
            cmd |-> <<"sudo", "pacman", "-Syu", "--noconfirm">>]
  ELSE IF distro = "windows" THEN
    IF repo_only
      THEN [ok |-> TRUE, desc |-> "Windows system updates only",
            cmd |-> <<"powershell.exe", "-Command", "\"">> \o WINDOWS_UPDATE_BASE
                      \o <<"\"">>]
      ELSE [ok |-> TRUE, desc |-> "full Windows system and software updates",
            cmd |-> <<"powershell.exe", "-Command", "\"">> \o WINDOWS_UPDATE_BASE
                      \o <<";">> \o WINDOWS_WINGET_UPDATE \o <<"\"">>]
  ELSE [ok |-> FALSE, desc |-> "Unsupported distribution", cmd |-> << >>]

\* ------------------------------------------------------- operation store
\* the id a plain INTEGER PRIMARY KEY (no AUTOINCREMENT) would assign: one
\* more than the largest id now in the table
NextRowId_rowid ==
  IF DOMAIN operations = {} THEN 1
  ELSE 1 + CHOOSE m \in DOMAIN operations : \A i \in DOMAIN operations : i <= m

\* the id INTEGER PRIMARY KEY AUTOINCREMENT assigns: one more than the largest
\* id the table ever held
NextRowId == sqlite_sequence + 1

\* log_op as it would be if a submission superseded the still running rows of
\* the same device
log_op_supersede(device, action) ==
  /\ operations' = [i \in DOMAIN operations \cup {NextRowId} |->
                      IF i = NextRowId
                        THEN [device |-> device, action |-> action,
                              status |-> "RUNNING", progress |-> 0]
                        ELSE IF operations[i].device = device /\ operations[i].status = "RUNNING"
                          THEN [operations[i] EXCEPT !.status = "STOPPED"]
                          ELSE operations[i]]
  /\ sqlite_sequence' = NextRowId
  /\ created' = created \cup {NextRowId}

\* log_op: INSERT one row, status RUNNING, progress 0, and return its id
log_op(device, action) ==
  /\ operations' = [i \in DOMAIN operations \cup {NextRowId} |->
                      IF i = NextRowId
                        THEN [device |-> device, action |-> action,
                              status |-> "RUNNING", progress |-> 0]
                        ELSE operations[i]]
  /\ sqlite_sequence' = NextRowId
  /\ created' = created \cup {NextRowId}

\* update_op as it would be if it wrote the status column alone
update_op_status_only(op_id, status, progress) ==
  [i \in DOMAIN operations |->
     IF i = op_id THEN [operations[i] EXCEPT !.status = status] ELSE operations[i]]

\* update_op as it would be with INSERT OR REPLACE in place of UPDATE
update_op_upsert(op_id, status, progress) ==
  [i \in DOMAIN operations \cup {op_id} |->
     IF i = op_id
       THEN IF i \in DOMAIN operations
              THEN [operations[i] EXCEPT !.status = status, !.progress = progress]
              ELSE [device |-> << >>, action |-> << >>,
                    status |-> status, progress |-> progress]
       ELSE operations[i]]

\* update_op(op_id, status, progress): UPDATE ... WHERE id=?
update_op(op_id, status, progress) ==
  [i \in DOMAIN operations |->
     IF i = op_id
       THEN [operations[i] EXCEPT !.status = status, !.progress = progress]
       ELSE operations[i]]

\* get_task_status: (status, progress) of the row; (None, None) without one,
\* written ("None", -1)
get_task_status(op_id) ==
  IF op_id \in DOMAIN operations
    THEN <<operations[op_id].status, operations[op_id].progress>>
    ELSE <<"None", -1>>

\* stop_task as it would be if the UPDATE also reset the progress
stop_task_reset(op_id) ==
  [i \in DOMAIN operations |->
     IF i = op_id THEN [operations[i] EXCEPT !.status = "STOPPED", !.progress = 0]
     ELSE operations[i]]

\* stop_task: UPDATE operations SET status='STOPPED' WHERE id=?
stop_task(op_id) ==
  [i \in DOMAIN operations |->
     IF i = op_id THEN [operations[i] EXCEPT !.status = "STOPPED"] ELSE operations[i]]

\* ---------------------------------------------------------------- threads
\* locals of a thread outside any call; in_sync: the call was made by sync_disks
NoFrame == [device |-> <<>>, arg |-> "", op_id |-> 0,
            now |-> 0, new_devices |-> <<>>, in_sync |-> FALSE, repo_only |-> FALSE,
            ssh |-> "None", result |-> << >>]
\* where a thread is when it runs no handler
Home(t) == IF t = Poller THEN "sleep" ELSE "idle"

\* ------------------------------------------------------------------- Init
Init ==
  /\ operations = << >>
  /\ sqlite_sequence = 0
  /\ created = {}
  /\ disks = << >>
  /\ attached = {}
  /\ clock = 0
  /\ first_attach = << >>
  /\ auto_enabled = FALSE
  /\ workers = << >>
  /\ pc = [t \in Threads |-> Home(t)]
  /\ frame = [t \in Threads |-> NoFrame]
  /\ executed = {}
  /\ logs = [n \in HostNames |-> 0]
  /\ lists = << >>
  /\ runs = << >>
  /\ sent = << >>
  /\ error_notifications_enabled = FALSE

\* ----------------------------------------------------------- start_format
\* line 208: op_id = log_op(device, f'FORMAT_{fs}')
StartFormat_log_op(t, device, fs) ==
  /\ sqlite_sequence < MaxOps
  /\ log_op(device, <<"FORMAT", fs>>)
  /\ frame' = [frame EXCEPT ![t].device = device, ![t].arg = fs, ![t].op_id = NextRowId]
  /\ pc' = [pc EXCEPT ![t] = "sf_thread"]
  /\ UNCHANGED <<diskVars, auto_enabled, workers, executed, updVars>>

\* start_format(device, fs) called from a request thread
Call_start_format(t, device, fs) ==
  /\ pc[t] = "idle"
  /\ StartFormat_log_op(t, device, fs)

\* line 209: threading.Thread(target=format_worker, ...).start()
StartFormat_thread(t) ==
  /\ pc[t] = "sf_thread"
  /\ workers' = [i \in DOMAIN workers \cup {frame[t].op_id} |->
                   IF i = frame[t].op_id
                     THEN [pc |-> "sanitize", device |-> frame[t].device,
                           fs |-> frame[t].arg, rcs |-> <<>>]
                     ELSE workers[i]]
  /\ pc' = [pc EXCEPT ![t] = "sf_return"]
  /\ UNCHANGED <<storeVars, diskVars, auto_enabled, frame, executed, updVars>>

\* line 210: return op_id (the caller gets frame[t].op_id); sync_disks drops
\* the value and goes on to line 167
StartFormat_return(t) ==
  /\ pc[t] = "sf_return"
  /\ IF frame[t].in_sync
       THEN /\ pc' = [pc EXCEPT ![t] = "sync_smart"]
            /\ frame' = [frame EXCEPT ![t].op_id = 0]
       ELSE /\ pc' = [pc EXCEPT ![t] = "idle"]
            /\ frame' = [frame EXCEPT ![t] = NoFrame]
  /\ UNCHANGED <<storeVars, diskVars, auto_enabled, workers, executed, updVars>>

\* ---------------------------------------------------------- format_worker
\* format_worker as it would be without the call of line 195
FormatWorker_unchecked(id) ==
  /\ id \in DOMAIN workers
  /\ workers[id].pc = "sanitize"
  /\ workers' = [workers EXCEPT ![id].pc = "wipefs"]
  /\ UNCHANGED <<storeVars, diskVars, auto_enabled, pc, frame, executed, updVars>>

\* line 195: device = sanitize_device_name(device); a ValueError goes to the
\* except branch of line 203
FormatWorker_sanitize(id) ==
  /\ id \in DOMAIN workers
  /\ workers[id].pc = "sanitize"
  /\ workers' = [workers EXCEPT ![id].pc =
                   IF sanitize_device_name(workers[id].device).ok
                     THEN "wipefs" ELSE "update_fail"]
  /\ UNCHANGED <<storeVars, diskVars, auto_enabled, pc, frame, executed, updVars>>

\* lines 197-200: run(['wipefs', '-a', path]); run() returns the output and
\* drops the exit status, and turns an exception of subprocess.run into its
\* text (lines 108-113); then the filesystem is looked up in cmd_map
FormatWorker_wipefs(id, outcome) ==
  /\ id \in DOMAIN workers
  /\ workers[id].pc = "wipefs"
  /\ executed' = executed \cup {workers[id].device}
  /\ workers' = [workers EXCEPT
                   ![id].rcs = Append(@, outcome),
                   ![id].pc = IF workers[id].fs \in DOMAIN cmd_map
                                THEN "mkfs" ELSE "update_fail"]
  /\ UNCHANGED <<storeVars, diskVars, auto_enabled, pc, frame, updVars>>

\* line 201: run(cmd_map[fs] + [path])
FormatWorker_mkfs(id, outcome) ==
  /\ id \in DOMAIN workers
  /\ workers[id].pc = "mkfs"
  /\ executed' = executed \cup {workers[id].device}
  /\ workers' = [workers EXCEPT ![id].rcs = Append(@, outcome),
                                ![id].pc = "update_ok"]
  /\ UNCHANGED <<storeVars, diskVars, auto_enabled, pc, frame, updVars>>

\* line 202: update_op(op_id, status='OK', progress=100), or
\* line 204: update_op(op_id, status='FAIL', progress=0); the thread ends
FormatWorker_update_op(id) ==
  /\ id \in DOMAIN workers
  /\ workers[id].pc \in {"update_ok", "update_fail"}
  /\ operations' = IF workers[id].pc = "update_ok"
                     THEN update_op(id, "OK", 100)
                     ELSE update_op(id, "FAIL", 0)
  /\ workers' = [i \in DOMAIN workers \ {id} |-> workers[i]]
  /\ UNCHANGED <<sqlite_sequence, created, diskVars, auto_enabled, pc, frame, executed, updVars>>

\* ------------------------------------------------------------ start_smart
\* lines 214-216: sanitize_device_name and the mode check, each raising
\* ValueError to the caller; raised inside sync_disks it ends sync_disks, and
\* with it auto_mode_worker, whose loop catches nothing
StartSmart_validate(t, device, mode) ==
  /\ sqlite_sequence < MaxOps
  /\ IF sanitize_device_name(device).ok /\ mode \in {"short", "long"}
       THEN /\ pc' = [pc EXCEPT ![t] = "ss_run"]
            /\ frame' = [frame EXCEPT ![t].device = device, ![t].arg = mode, ![t].op_id = 0]
       ELSE /\ pc' = [pc EXCEPT ![t] = IF t = Poller THEN "dead" ELSE "idle"]
            /\ frame' = [frame EXCEPT ![t] = NoFrame]
  /\ UNCHANGED <<storeVars, diskVars, auto_enabled, workers, executed, updVars>>

\* start_smart(device, mode) called from a request thread
Call_start_smart(t, device, mode) ==
  /\ pc[t] = "idle"
  /\ StartSmart_validate(t, device, mode)

\* line 217: run(['smartctl', '-t', mode, path]) in the calling thread; the
\* call returns when the command has ended, whatever its outcome
StartSmart_run(t, outcome) ==
  /\ pc[t] = "ss_run"
  /\ outcome \in CmdOutcomes
  /\ executed' = executed \cup {frame[t].device}
  /\ pc' = [pc EXCEPT ![t] = "ss_log_op"]
  /\ UNCHANGED <<storeVars, diskVars, auto_enabled, workers, frame, updVars>>

\* line 218: log_op(device, f'SMART_{mode.upper()}'); the function ends
\* without a return statement; sync_disks goes on with its next device
StartSmart_log_op(t) ==
  /\ pc[t] = "ss_log_op"
  /\ sqlite_sequence < MaxOps
  /\ log_op(frame[t].device, <<"SMART", StrUpper(frame[t].arg)>>)
  /\ IF frame[t].in_sync
       THEN /\ pc' = [pc EXCEPT ![t] = "sync_loop"]
            /\ frame' = [frame EXCEPT ![t].device = <<>>, ![t].arg = "",
                                      ![t].new_devices = Tail(@)]
       ELSE /\ pc' = [pc EXCEPT ![t] = "idle"]
            /\ frame' = [frame EXCEPT ![t] = NoFrame]
  /\ UNCHANGED <<diskVars, auto_enabled, workers, executed, updVars>>

\* -------------------------------------------------------------- stop_task
\* app.py stop_task route calling disktool_core.stop_task(op_id): the request
\* thread has entered the call, its UPDATE is not committed yet
StopTask_call(t, op_id) ==
  /\ pc[t] = "idle"
  /\ frame' = [frame EXCEPT ![t].op_id = op_id]
  /\ pc' = [pc EXCEPT ![t] = "stop_commit"]
  /\ UNCHANGED <<storeVars, diskVars, auto_enabled, workers, executed, updVars>>

\* lines 395-396: the UPDATE is committed when the with block ends
StopTask_commit(t) ==
  /\ pc[t] = "stop_commit"
  /\ operations' = stop_task(frame[t].op_id)
  /\ frame' = [frame EXCEPT ![t] = NoFrame]
  /\ pc' = [pc EXCEPT ![t] = "idle"]
  /\ UNCHANGED <<sqlite_sequence, created, diskVars, auto_enabled, workers, executed, updVars>>

\* ---------------------------------------------------------- clear_history
\* lines 329-331: DELETE FROM operations; the AUTOINCREMENT counter lives in
\* sqlite_sequence and is not touched by a DELETE
ClearHistory(t) ==
  /\ pc[t] = "idle"
  /\ operations' = << >>
  /\ UNCHANGED <<sqlite_sequence, created, diskVars, auto_enabled, workers, pc, frame, executed, updVars>>

\* -------------------------------------------------------- get_task_status
\* app.py task_status_api: a read of the row, nothing is written
GetTaskStatus(t, op_id) ==
  /\ pc[t] = "idle"
  /\ get_task_status(op_id) \in {"RUNNING", "OK", "FAIL", "STOPPED", "None"} \X {-1, 0, 100}
  /\ UNCHANGED vars

\* ---------------------------------------------------------------- restart
\* the process ends and app.py is started again: every thread and every
\* module global is gone, the database file stays; init_db creates only what
\* does not exist
\* (a start on an empty operations table)
Restart_fresh_db ==
  /\ operations' = << >>
  /\ workers' = << >>
  /\ auto_enabled' = FALSE
  /\ pc' = [t \in Threads |-> Home(t)]
  /\ frame' = [t \in Threads |-> NoFrame]
  /\ logs' = [n \in HostNames |-> 0]
  /\ lists' = << >>
  /\ runs' = << >>
  /\ sent' = << >>
  /\ UNCHANGED <<sqlite_sequence, created, diskVars, executed, error_notifications_enabled>>

Restart ==
  /\ workers' = << >>
  /\ auto_enabled' = FALSE
  /\ pc' = [t \in Threads |-> Home(t)]
  /\ frame' = [t \in Threads |-> NoFrame]
  /\ logs' = [n \in HostNames |-> 0]
  /\ lists' = << >>
  /\ runs' = << >>
  /\ sent' = << >>
  /\ UNCHANGED <<storeVars, diskVars, executed, error_notifications_enabled>>

\* ------------------------------------------------------------- sync_disks
\* app.py disks_index: the disk page calls sync_disks()
DisksIndex(t) ==
  /\ pc[t] = "idle"
  /\ pc' = [pc EXCEPT ![t] = "sync_now"]
  /\ frame' = [frame EXCEPT ![t].in_sync = TRUE]
  /\ UNCHANGED <<storeVars, diskVars, auto_enabled, workers, executed, updVars>>

\* line 144: now = datetime.utcnow().strftime('%Y-%m-%d %H:%M:%S')
Sync_now(t) ==
  /\ pc[t] = "sync_now"
  /\ frame' = [frame EXCEPT ![t].now = clock]
  /\ pc' = [pc EXCEPT ![t] = "sync_txn"]
  /\ UNCHANGED <<storeVars, diskVars, auto_enabled, workers, executed, updVars>>

\* lines 146-162, one transaction: present = 0 everywhere; every disk lsblk
\* lists (none when lsblk fails: ls_disks returns []) is written with
\* present = 1 and its old first_seen, or the current time when it has no
\* row; get_serial runs smartctl -i for the names sanitize_device_name
\* accepts; the rows with first_seen >= now, less the skipped names, are the
\* new devices
Sync_txn(t, listed) ==
  /\ pc[t] = "sync_txn"
  /\ listed \in {attached, {}}
  /\ LET written == [d \in DOMAIN disks \cup listed |->
                       IF d \in listed
                         THEN [present |-> 1,
                               first_seen |-> IF d \in DOMAIN disks
                                                THEN disks[d].first_seen ELSE clock]
                         ELSE [disks[d] EXCEPT !.present = 0]]
         rows == {d \in DOMAIN written : written[d].first_seen >= frame[t].now}
         new == {d \in rows : ~AutoSkipped(d)}
     IN  /\ disks' = written
         /\ \E order \in RowOrders(new) :
              frame' = [frame EXCEPT ![t].new_devices = order]
  /\ executed' = executed \cup {d \in listed : sanitize_device_name(d).ok}
  /\ pc' = [pc EXCEPT ![t] = "sync_auto"]
  /\ UNCHANGED <<storeVars, attached, clock, first_attach, auto_enabled, workers, updVars>>

\* sync_disks as it would be without the test of line 164
Sync_auto_always(t) ==
  /\ pc[t] = "sync_auto"
  /\ pc' = [pc EXCEPT ![t] = "sync_loop"]
  /\ UNCHANGED <<storeVars, diskVars, auto_enabled, workers, frame, executed, updVars>>

\* line 164: if auto_enabled
Sync_auto(t) ==
  /\ pc[t] = "sync_auto"
  /\ IF auto_enabled
       THEN /\ pc' = [pc EXCEPT ![t] = "sync_loop"]
            /\ UNCHANGED frame
       ELSE /\ pc' = [pc EXCEPT ![t] = Home(t)]
            /\ frame' = [frame EXCEPT ![t] = NoFrame]
  /\ UNCHANGED <<storeVars, diskVars, auto_enabled, workers, executed, updVars>>

\* lines 165-166: for dev in new_devices: start_format(dev, 'ext4')
Sync_start_format(t) ==
  /\ pc[t] = "sync_loop"
  /\ frame[t].new_devices # <<>>
  /\ StartFormat_log_op(t, Head(frame[t].new_devices), "ext4")

\* line 167: start_smart(dev, 'short')
Sync_start_smart(t) ==
  /\ pc[t] = "sync_smart"
  /\ StartSmart_validate(t, Head(frame[t].new_devices), "short")

\* the loop of line 165 is over: sync_disks returns
Sync_return(t) ==
  /\ pc[t] = "sync_loop"
  /\ frame[t].new_devices = <<>>
  /\ pc' = [pc EXCEPT ![t] = Home(t)]
  /\ frame' = [frame EXCEPT ![t] = NoFrame]
  /\ UNCHANGED <<storeVars, diskVars, auto_enabled, workers, executed, updVars>>

\* app.py toggle_auto: auto_enabled = not auto_enabled
ToggleAuto(t) ==
  /\ pc[t] = "idle"
  /\ auto_enabled' = ~auto_enabled
  /\ UNCHANGED <<storeVars, diskVars, workers, pc, frame, executed, updVars>>

\* ------------------------------------------------------- auto_mode_worker
\* line 402: time.sleep(10); the clock is later when the thread wakes
Poller_sleep ==
  /\ pc[Poller] = "sleep"
  /\ clock < MaxClock
  /\ clock' = clock + 1
  /\ pc' = [pc EXCEPT ![Poller] = "woke"]
  /\ UNCHANGED <<storeVars, disks, attached, first_attach, auto_enabled, workers, frame,
                 executed, updVars>>

\* lines 403-404: if auto_enabled: sync_disks()
Poller_check ==
  /\ pc[Poller] = "woke"
  /\ IF auto_enabled
       THEN /\ pc' = [pc EXCEPT ![Poller] = "sync_now"]
            /\ frame' = [frame EXCEPT ![Poller].in_sync = TRUE]
       ELSE /\ pc' = [pc EXCEPT ![Poller] = "sleep"]
            /\ UNCHANGED frame
  /\ UNCHANGED <<storeVars, diskVars, auto_enabled, workers, executed, updVars>>

\* ------------------------------------------------------------ environment
\* a second passes
Tick ==
  /\ clock < MaxClock
  /\ clock' = clock + 1
  /\ UNCHANGED <<storeVars, disks, attached, first_attach, auto_enabled, workers, pc, frame,
                 executed, updVars>>

\* a disk is plugged in, or removed
Attach(d) ==
  /\ d \notin attached
  /\ attached' = attached \cup {d}
  /\ first_attach' = IF d \in DOMAIN first_attach THEN first_attach
                      ELSE [e \in DOMAIN first_attach \cup {d} |->
                              IF e = d THEN auto_enabled ELSE first_attach[e]]
  /\ UNCHANGED <<storeVars, disks, clock, auto_enabled, workers, pc, frame, executed, updVars>>

Detach(d) ==
  /\ d \in attached
  /\ attached' = attached \ {d}
  /\ UNCHANGED <<storeVars, disks, clock, first_attach, auto_enabled, workers, pc, frame,
                 executed, updVars>>

\* ------------------------------------------------------ the update routes
\* update and update_repo, first half: logs[name] = []
Update_reset(t, name, repo_only) ==
  /\ pc[t] = "idle"
  /\ Len(lists) < MaxRuns
  /\ lists' = Append(lists, << >>)
  /\ logs' = [logs EXCEPT ![name] = Len(lists) + 1]
  /\ pc' = [pc EXCEPT ![t] = "update_thread"]
  /\ frame' = [frame EXCEPT ![t] = [NoFrame EXCEPT !.arg = name, !.repo_only = repo_only]]
  /\ UNCHANGED <<storeVars, diskVars, auto_enabled, workers, executed,
                 runs, sent, error_notifications_enabled>>

\* second half: Thread(target=run_update, args=(host, user, name, logs[name])).start()
Update_thread(t) ==
  /\ pc[t] = "update_thread"
  /\ runs' = Append(runs, [pc |-> "run_update", name |-> frame[t].arg,
                           host |-> hosts[frame[t].arg],
                           repo_only |-> frame[t].repo_only,
                           log_list |-> logs[frame[t].arg],
                           ssh |-> "None", distro |-> "", cmd |-> << >>,
                           error_occurred |-> FALSE, left |-> 0,
                           exit_status |-> "none"])
  /\ sent' = Append(sent, 0)
  /\ pc' = [pc EXCEPT ![t] = "idle"]
  /\ frame' = [frame EXCEPT ![t] = NoFrame]
  /\ UNCHANGED <<storeVars, diskVars, auto_enabled, workers, executed,
                 logs, lists, error_notifications_enabled>>

\* the email_settings route saving the form: the value that
\* get_error_notifications_enabled() returns from now on
EmailSettings(t, email_enabled, error_notifications) ==
  /\ pc[t] = "idle"
  /\ error_notifications_enabled' = (email_enabled /\ error_notifications)
  /\ error_notifications_enabled' # error_notifications_enabled
  /\ UNCHANGED <<storeVars, diskVars, auto_enabled, workers, pc, frame, executed,
                 logs, lists, runs, sent>>

\* ------------------------------------------------------------- run_update
\* the log helper: log_list.append(...), once per message
log(r, msgs) == [lists EXCEPT ![runs[r].log_list] = @ \o [i \in 1..Len(msgs) |-> <<r, msgs[i]>>]]

\* email_notifier.send_error_notification behind its enabled test
notify(r) == IF error_notifications_enabled THEN [sent EXCEPT ![r] = @ + 1] ELSE sent

\* the entry of run_update: the local branch, or the first line of the try block
RunUpdate_enter(r) ==
  /\ runs[r].pc = "run_update"
  /\ IF is_localhost(runs[r].host)
       THEN /\ runs' = [runs EXCEPT ![r].pc = "local_detect"]
            /\ lists' = log(r, <<"Running local update", "Detecting operating system">>)
       ELSE /\ runs' = [runs EXCEPT ![r].pc = "connect", ![r].ssh = "client"]
            /\ lists' = log(r, <<"Connecting">>)
  /\ UNCHANGED <<storeVars, diskVars, auto_enabled, workers, pc, frame, executed,
                 logs, sent, error_notifications_enabled>>

\* ssh.connect as it would be handled without the `except Exception` clause:
\* an error that is no paramiko error leaves run_update as an exception
RunUpdate_connect_uncaught(r, outcome) ==
  /\ runs[r].pc = "connect"
  /\ IF outcome = "connected"
       THEN /\ runs' = [runs EXCEPT ![r].pc = "detect", ![r].ssh = "open"]
            /\ lists' = log(r, <<"Connected", "Detecting operating system">>)
     ELSE IF outcome = "Exception"
       THEN /\ runs' = [runs EXCEPT ![r].pc = "raised", ![r].ssh = "closed"]
            /\ lists' = log(r, <<"Disconnected">>)
       ELSE /\ runs' = [runs EXCEPT ![r].pc = "finally", ![r].error_occurred = TRUE]
            /\ lists' = log(r, <<outcome>>)
  /\ UNCHANGED <<storeVars, diskVars, auto_enabled, workers, pc, frame, executed,
                 logs, sent, error_notifications_enabled>>

\* ssh.connect(host, username=user, timeout=30) and the three except clauses
RunUpdate_connect(r, outcome) ==
  /\ runs[r].pc = "connect"
  /\ IF outcome = "connected"
       THEN /\ runs' = [runs EXCEPT ![r].pc = "detect", ![r].ssh = "open"]
            /\ lists' = log(r, <<"Connected", "Detecting operating system">>)
       ELSE /\ runs' = [runs EXCEPT ![r].pc = "finally", ![r].error_occurred = TRUE]
            /\ lists' = log(r, <<outcome>>)
  /\ UNCHANGED <<storeVars, diskVars, auto_enabled, workers, pc, frame, executed,
                 logs, sent, error_notifications_enabled>>

\* the steps from "Get the update command" to "Executing update command"
RunUpdate_command(r, distro, next, fail) ==
  LET c == get_update_command(distro, runs[r].repo_only) IN
  IF c.ok
    THEN /\ runs' = [runs EXCEPT ![r].pc = next, ![r].distro = distro, ![r].cmd = c.cmd]
         /\ lists' = log(r, <<"Detected", c.desc, "Executing update command">>)
    ELSE /\ runs' = [runs EXCEPT ![r].pc = fail, ![r].distro = distro,
                                 ![r].error_occurred = TRUE]
         /\ lists' = log(r, <<"Detected", "Unsupported distribution",
                              "Supported distributions">>)

\* the Windows probe, the os-release read and the choice of the command
RunUpdate_detect(r, outcome) ==
  /\ runs[r].pc = "detect"
  /\ IF outcome = "SSHException"
       THEN /\ runs' = [runs EXCEPT ![r].pc = "finally", ![r].error_occurred = TRUE]
            /\ lists' = log(r, <<outcome>>)
            /\ UNCHANGED sent
     ELSE IF outcome = ""
       THEN /\ runs' = [runs EXCEPT ![r].pc = "finally", ![r].error_occurred = TRUE]
            /\ lists' = log(r, <<"Detecting Linux distribution",
                                 "Could not detect operating system">>)
            /\ sent' = notify(r)
       ELSE /\ RunUpdate_command(r, outcome, "exec", "finally")
            /\ UNCHANGED sent
  /\ UNCHANGED <<storeVars, diskVars, auto_enabled, workers, pc, frame, executed,
                 logs, error_notifications_enabled>>

\* ssh.exec_command(update_cmd, get_pty=True)
RunUpdate_exec(r, outcome, n) ==
  /\ runs[r].pc = "exec"
  /\ IF outcome = "started"
       THEN /\ runs' = [runs EXCEPT ![r].pc = "read", ![r].left = n]
            /\ UNCHANGED lists
       ELSE /\ runs' = [runs EXCEPT ![r].pc = "finally", ![r].error_occurred = TRUE]
            /\ lists' = log(r, <<outcome>>)
  /\ UNCHANGED <<storeVars, diskVars, auto_enabled, workers, pc, frame, executed,
                 logs, sent, error_notifications_enabled>>

\* one turn of the readline loop
RunUpdate_readline(r, outcome) ==
  /\ runs[r].pc = "read"
  /\ IF outcome = "Exception"
       THEN /\ runs' = [runs EXCEPT ![r].pc = "finally", ![r].error_occurred = TRUE]
            /\ lists' = log(r, <<outcome>>)
     ELSE IF runs[r].left > 0
       THEN /\ runs' = [runs EXCEPT ![r].left = @ - 1]
            /\ lists' = log(r, <<"output">>)
       ELSE /\ runs' = [runs EXCEPT ![r].pc = "exit_status"]
            /\ UNCHANGED lists
  /\ UNCHANGED <<storeVars, diskVars, auto_enabled, workers, pc, frame, executed,
                 logs, sent, error_notifications_enabled>>

\* stdout.channel.recv_exit_status() and the two branches on it
RunUpdate_exit_status(r, status) ==
  /\ runs[r].pc = "exit_status"
  /\ IF status = "exit_0"
       THEN /\ runs' = [runs EXCEPT ![r].pc = "finally", ![r].exit_status = status]
            /\ lists' = log(r, <<"Update completed successfully">>)
       ELSE /\ runs' = [runs EXCEPT ![r].pc = "finally", ![r].exit_status = status,
                                    ![r].error_occurred = TRUE]
            /\ lists' = log(r, <<"Update finished with exit code">>)
  /\ UNCHANGED <<storeVars, diskVars, auto_enabled, workers, pc, frame, executed,
                 logs, sent, error_notifications_enabled>>

\* the finally block as it would be without ssh.close()
RunUpdate_finally_unclosed(r) ==
  /\ runs[r].pc = "finally"
  /\ runs' = [runs EXCEPT ![r].pc = "returned"]
  /\ sent' = IF runs[r].error_occurred THEN notify(r) ELSE sent
  /\ UNCHANGED <<storeVars, diskVars, auto_enabled, workers, pc, frame, executed,
                 logs, lists, error_notifications_enabled>>

\* the finally block
RunUpdate_finally(r) ==
  /\ runs[r].pc = "finally"
  /\ IF runs[r].ssh # "None"
       THEN /\ runs' = [runs EXCEPT ![r].pc = "returned", ![r].ssh = "closed"]
            /\ lists' = log(r, <<"Disconnected">>)
       ELSE /\ runs' = [runs EXCEPT ![r].pc = "returned"]
            /\ UNCHANGED lists
  /\ sent' = IF runs[r].error_occurred THEN notify(r) ELSE sent
  /\ UNCHANGED <<storeVars, diskVars, auto_enabled, workers, pc, frame, executed,
                 logs, error_notifications_enabled>>

\* ------------------------------------------------------- run_local_update
\* get_platform(), the os-release parse and the choice of the command
RunLocalUpdate_detect(r, outcome) ==
  /\ runs[r].pc = "local_detect"
  /\ IF outcome \in {"FileNotFoundError", "PermissionError", "ValueError"}
       THEN /\ runs' = [runs EXCEPT ![r].pc = "local_finally", ![r].error_occurred = TRUE]
            /\ lists' = log(r, <<"Detecting Linux distribution", outcome>>)
            /\ sent' = notify(r)
       ELSE LET c == get_update_command(outcome, runs[r].repo_only) IN
            /\ RunUpdate_command(r, outcome, "local_exec", "local_finally")
            /\ sent' = IF c.ok THEN sent ELSE notify(r)
  /\ UNCHANGED <<storeVars, diskVars, auto_enabled, workers, pc, frame, executed,
                 logs, error_notifications_enabled>>

\* subprocess.Popen(update_cmd, shell=True, ...)
RunLocalUpdate_popen(r, outcome, n) ==
  /\ runs[r].pc = "local_exec"
  /\ IF outcome = "started"
       THEN /\ runs' = [runs EXCEPT ![r].pc = "local_read", ![r].left = n]
            /\ UNCHANGED lists
       ELSE /\ runs' = [runs EXCEPT ![r].pc = "local_finally", ![r].error_occurred = TRUE]
            /\ lists' = log(r, <<outcome>>)
  /\ UNCHANGED <<storeVars, diskVars, auto_enabled, workers, pc, frame, executed,
                 logs, sent, error_notifications_enabled>>

\* for line in process.stdout
RunLocalUpdate_readline(r) ==
  /\ runs[r].pc = "local_read"
  /\ IF runs[r].left > 0
       THEN /\ runs' = [runs EXCEPT ![r].left = @ - 1]
            /\ lists' = log(r, <<"output">>)
       ELSE /\ runs' = [runs EXCEPT ![r].pc = "local_wait"]
            /\ UNCHANGED lists
  /\ UNCHANGED <<storeVars, diskVars, auto_enabled, workers, pc, frame, executed,
                 logs, sent, error_notifications_enabled>>

\* process.wait() and the two branches on it
RunLocalUpdate_wait(r, status) ==
  /\ runs[r].pc = "local_wait"
  /\ IF status = "exit_0"
       THEN /\ runs' = [runs EXCEPT ![r].pc = "local_finally", ![r].exit_status = status]
            /\ lists' = log(r, <<"Update completed successfully">>)
       ELSE /\ runs' = [runs EXCEPT ![r].pc = "local_finally", ![r].exit_status = status,
                                    ![r].error_occurred = TRUE]
            /\ lists' = log(r, <<"Update finished with exit code">>)
  /\ UNCHANGED <<storeVars, diskVars, auto_enabled, workers, pc, frame, executed,
                 logs, sent, error_notifications_enabled>>

\* the finally block
RunLocalUpdate_finally(r) ==
  /\ runs[r].pc = "local_finally"
  /\ runs' = [runs EXCEPT ![r].pc = "returned"]
  /\ sent' = IF runs[r].error_occurred THEN notify(r) ELSE sent
  /\ UNCHANGED <<storeVars, diskVars, auto_enabled, workers, pc, frame, executed,
                 logs, lists, error_notifications_enabled>>

\* ------------------------------------------------------- detect_os_remote
\* app.py detect_host_os calling detect_os_remote(host, user): the local
\* branch, or ssh = paramiko.SSHClient() as the first line of the try block
DetectOs_call(t, name) ==
  /\ pc[t] = "idle"
  /\ IF is_localhost(hosts[name])
       THEN /\ pc' = [pc EXCEPT ![t] = "detect_local"]
            /\ frame' = [frame EXCEPT ![t].arg = name]
       ELSE /\ pc' = [pc EXCEPT ![t] = "detect_connect"]
            /\ frame' = [frame EXCEPT ![t].arg = name, ![t].ssh = "client"]
  /\ UNCHANGED <<storeVars, diskVars, auto_enabled, workers, executed, updVars>>

\* ssh.connect(host, username=user, timeout=10)
DetectOs_connect(t, outcome) ==
  /\ pc[t] = "detect_connect"
  /\ IF outcome = "connected"
       THEN /\ pc' = [pc EXCEPT ![t] = "detect_probe"]
            /\ frame' = [frame EXCEPT ![t].ssh = "open"]
       ELSE /\ pc' = [pc EXCEPT ![t] = "detect_finally"]
            /\ UNCHANGED frame
  /\ UNCHANGED <<storeVars, diskVars, auto_enabled, workers, executed, updVars>>

\* the Windows probe and, after it, the version query or the os-release
\* read; every outcome, a return or an exception, leads to the finally block
DetectOs_probe(t, outcome) ==
  /\ pc[t] = "detect_probe"
  /\ pc' = [pc EXCEPT ![t] = "detect_finally"]
  /\ UNCHANGED <<storeVars, diskVars, auto_enabled, workers, frame, executed, updVars>>

\* the finally block: if ssh: ssh.close()
DetectOs_finally(t) ==
  /\ pc[t] = "detect_finally"
  /\ pc' = [pc EXCEPT ![t] = "detect_return"]
  /\ frame' = [frame EXCEPT ![t].ssh = IF @ # "None" THEN "closed" ELSE @]
  /\ UNCHANGED <<storeVars, diskVars, auto_enabled, workers, executed, updVars>>

\* detect_os_local: get_platform() and the read of /etc/os-release
DetectOs_local(t, outcome) ==
  /\ pc[t] = "detect_local"
  /\ pc' = [pc EXCEPT ![t] = "detect_return"]
  /\ UNCHANGED <<storeVars, diskVars, auto_enabled, workers, frame, executed, updVars>>

\* detect_os_remote returns to the route
DetectOs_return(t) ==
  /\ pc[t] = "detect_return"
  /\ pc' = [pc EXCEPT ![t] = "idle"]
  /\ frame' = [frame EXCEPT ![t] = NoFrame]
  /\ UNCHANGED <<storeVars, diskVars, auto_enabled, workers, executed, updVars>>

\* ------------------------------------------------------------ direct calls
\* test_windows_support.py: cmd, desc = get_update_command(distro, repo_only=...)
\* with the arguments the thread holds; the pair, or the ValueError, is what
\* the caller is left with
Call_get_update_command(t) ==
  /\ pc[t] = "idle"
  /\ frame' = [frame EXCEPT ![t].result = get_update_command(frame[t].arg, frame[t].repo_only)]
  /\ pc' = [pc EXCEPT ![t] = "guc_done"]
  /\ UNCHANGED <<storeVars, diskVars, auto_enabled, workers, executed, updVars>>

\* test_disktool_security.py: result = disktool_core.sanitize_device_name(name)
Call_sanitize_device_name(t) ==
  /\ pc[t] = "idle"
  /\ frame' = [frame EXCEPT ![t].result = sanitize_device_name(frame[t].device)]
  /\ pc' = [pc EXCEPT ![t] = "sdn_done"]
  /\ UNCHANGED <<storeVars, diskVars, auto_enabled, workers, executed, updVars>>

\* the caller drops what it got and is ready for its next call
Call_return(t) ==
  /\ pc[t] \in {"guc_done", "sdn_done"}
  /\ frame' = [frame EXCEPT ![t].result = << >>]
  /\ pc' = [pc EXCEPT ![t] = "idle"]
  /\ UNCHANGED <<storeVars, diskVars, auto_enabled, workers, executed, updVars>>

\* --------------------------------------------------------- specifications
\* the disk task engine as request threads call it
Next ==
  \/ \E t \in Requests, d \in DeviceInputs, fs \in FsInputs : Call_start_format(t, d, fs)
  \/ \E t \in Requests : StartFormat_thread(t)
  \/ \E t \in Requests : StartFormat_return(t)
  \/ \E id \in IdInputs : FormatWorker_sanitize(id)
  \/ \E id \in IdInputs, o \in CmdOutcomes : FormatWorker_wipefs(id, o)
  \/ \E id \in IdInputs, o \in CmdOutcomes : FormatWorker_mkfs(id, o)
  \/ \E id \in IdInputs : FormatWorker_update_op(id)
  \/ \E t \in Requests, d \in DeviceInputs, m \in ModeInputs : Call_start_smart(t, d, m)
  \/ \E t \in Requests, o \in CmdOutcomes : StartSmart_run(t, o)
  \/ \E t \in Requests : StartSmart_log_op(t)
  \/ \E t \in Requests, id \in IdInputs : StopTask_call(t, id)
  \/ \E t \in Requests : StopTask_commit(t)
  \/ \E t \in Requests : ClearHistory(t)
  \/ \E t \in Requests, id \in IdInputs : GetTaskStatus(t, id)
  \/ Restart

Spec == Init /\ [][Next]_vars

\* the auto trigger: the poller thread and the disk page running sync_disks,
\* the auto mode toggle, disks coming and going
NextAuto ==
  \/ \E t \in Requests : DisksIndex(t)
  \/ \E t \in Requests : ToggleAuto(t)
  \/ Poller_sleep
  \/ Poller_check
  \/ \E t \in Threads : Sync_now(t)
  \/ \E t \in Threads, listed \in SUBSET AttachInputs : Sync_txn(t, listed)
  \/ \E t \in Threads : Sync_auto(t)
  \/ \E t \in Threads : Sync_start_format(t)
  \/ \E t \in Threads : StartFormat_thread(t)
  \/ \E t \in Threads : StartFormat_return(t)
  \/ \E t \in Threads : Sync_start_smart(t)
  \/ \E t \in Threads, o \in AutoOutcomes : StartSmart_run(t, o)
  \/ \E t \in Threads : StartSmart_log_op(t)
  \/ \E t \in Threads : Sync_return(t)
  \/ \E id \in IdInputs : FormatWorker_sanitize(id)
  \/ \E id \in IdInputs, o \in AutoOutcomes : FormatWorker_wipefs(id, o)
  \/ \E id \in IdInputs, o \in AutoOutcomes : FormatWorker_mkfs(id, o)
  \/ \E id \in IdInputs : FormatWorker_update_op(id)
  \/ Tick
  \/ \E d \in AttachInputs : Attach(d)
  \/ \E d \in AttachInputs : Detach(d)

SpecAuto == Init /\ [][NextAuto]_vars

\* the update routes and the threads they start
ConnectOutcomes == {"connected", "AuthenticationException", "SSHException", "Exception"}
DetectOutcomes == {"windows", "SSHException"} \cup DistroInputs
LocalDetectOutcomes ==
  {"windows", "FileNotFoundError", "PermissionError", "ValueError"} \cup (DistroInputs \ {""})
ExitOutcomes == {"exit_0", "exit_1"}

NextUpdate ==
  \/ \E t \in Requests, name \in HostNames, repo_only \in BOOLEAN :
       Update_reset(t, name, repo_only)
  \/ \E t \in Requests : Update_thread(t)
  \/ \E t \in Requests, email_enabled \in BOOLEAN, error_notifications \in BOOLEAN :
       EmailSettings(t, email_enabled, error_notifications)
  \/ \E r \in DOMAIN runs : RunUpdate_enter(r)
  \/ \E r \in DOMAIN runs, outcome \in ConnectOutcomes : RunUpdate_connect(r, outcome)
  \/ \E r \in DOMAIN runs, outcome \in DetectOutcomes : RunUpdate_detect(r, outcome)
  \/ \E r \in DOMAIN runs, outcome \in {"started", "SSHException"}, n \in 0..MaxLines :
       RunUpdate_exec(r, outcome, n)
  \/ \E r \in DOMAIN runs, outcome \in {"line", "Exception"} : RunUpdate_readline(r, outcome)
  \/ \E r \in DOMAIN runs, status \in ExitOutcomes : RunUpdate_exit_status(r, status)
  \/ \E r \in DOMAIN runs : RunUpdate_finally(r)
  \/ \E r \in DOMAIN runs, outcome \in LocalDetectOutcomes : RunLocalUpdate_detect(r, outcome)
  \/ \E r \in DOMAIN runs, outcome \in {"started", "OSError"}, n \in 0..MaxLines :
       RunLocalUpdate_popen(r, outcome, n)
  \/ \E r \in DOMAIN runs : RunLocalUpdate_readline(r)
  \/ \E r \in DOMAIN runs, status \in ExitOutcomes : RunLocalUpdate_wait(r, status)
  \/ \E r \in DOMAIN runs : RunLocalUpdate_finally(r)

SpecUpdate == Init /\ [][NextUpdate]_vars

\* the SSH sessions: the update runs under every outcome of every step,
\* beside the OS detection of the host page
NextSsh ==
  \/ \E t \in Requests, name \in HostNames, repo_only \in BOOLEAN :
       Update_reset(t, name, repo_only)
  \/ \E t \in Requests : Update_thread(t)
  \/ \E r \in DOMAIN runs : RunUpdate_enter(r)
  \/ \E r \in DOMAIN runs, outcome \in ConnectOutcomes : RunUpdate_connect(r, outcome)
  \/ \E r \in DOMAIN runs, outcome \in DetectOutcomes : RunUpdate_detect(r, outcome)
  \/ \E r \in DOMAIN runs, outcome \in {"started", "SSHException"}, n \in 0..MaxLines :
       RunUpdate_exec(r, outcome, n)
  \/ \E r \in DOMAIN runs, outcome \in {"line", "Exception"} : RunUpdate_readline(r, outcome)
  \/ \E r \in DOMAIN runs, status \in ExitOutcomes : RunUpdate_exit_status(r, status)
  \/ \E r \in DOMAIN runs : RunUpdate_finally(r)
  \/ \E r \in DOMAIN runs, outcome \in LocalDetectOutcomes : RunLocalUpdate_detect(r, outcome)
  \/ \E r \in DOMAIN runs, outcome \in {"started", "OSError"}, n \in 0..MaxLines :
       RunLocalUpdate_popen(r, outcome, n)
  \/ \E r \in DOMAIN runs : RunLocalUpdate_readline(r)
  \/ \E r \in DOMAIN runs, status \in ExitOutcomes : RunLocalUpdate_wait(r, status)
  \/ \E r \in DOMAIN runs : RunLocalUpdate_finally(r)
  \/ \E t \in Requests, name \in HostNames : DetectOs_call(t, name)
  \/ \E t \in Requests, outcome \in ConnectOutcomes : DetectOs_connect(t, outcome)
  \/ \E t \in Requests, outcome \in DetectOutcomes : DetectOs_probe(t, outcome)
  \/ \E t \in Requests : DetectOs_finally(t)
  \/ \E t \in Requests, outcome \in LocalDetectOutcomes : DetectOs_local(t, outcome)
  \/ \E t \in Requests : DetectOs_return(t)

SpecSsh == Init /\ [][NextSsh]_vars


\* overlapping requests to the update routes: two request threads, and of
\* the outcomes of each step the ones that differ in what is logged
NextLogs ==
  \/ \E t \in UpdateRequests, name \in HostNames, repo_only \in BOOLEAN :
       Update_reset(t, name, repo_only)
  \/ \E t \in UpdateRequests : Update_thread(t)
  \/ \E r \in DOMAIN runs : RunUpdate_enter(r)
  \/ \E r \in DOMAIN runs, outcome \in {"connected", "SSHException"} :
       RunUpdate_connect(r, outcome)
  \/ \E r \in DOMAIN runs, outcome \in {"ubuntu", ""} : RunUpdate_detect(r, outcome)
  \/ \E r \in DOMAIN runs, n \in 0..MaxLines : RunUpdate_exec(r, "started", n)
  \/ \E r \in DOMAIN runs : RunUpdate_readline(r, "line")
  \/ \E r \in DOMAIN runs, status \in ExitOutcomes : RunUpdate_exit_status(r, status)
  \/ \E r \in DOMAIN runs : RunUpdate_finally(r)
  \/ \E r \in DOMAIN runs, outcome \in {"ubuntu", "ValueError"} :
       RunLocalUpdate_detect(r, outcome)
  \/ \E r \in DOMAIN runs, n \in 0..MaxLines : RunLocalUpdate_popen(r, "started", n)
  \/ \E r \in DOMAIN runs : RunLocalUpdate_readline(r)
  \/ \E r \in DOMAIN runs, status \in ExitOutcomes : RunLocalUpdate_wait(r, status)
  \/ \E r \in DOMAIN runs : RunLocalUpdate_finally(r)

SpecLogs == Init /\ [][NextLogs]_vars

\* the direct calls of get_update_command and sanitize_device_name, each
\* for every argument of the input sets: the state after construction, with
\* the arguments of the calls to come in the caller's locals
InitCalls ==
  /\ operations = << >>
  /\ sqlite_sequence = 0
  /\ created = {}
  /\ disks = << >>
  /\ attached = {}
  /\ clock = 0
  /\ first_attach = << >>
  /\ auto_enabled = FALSE
  /\ workers = << >>
  /\ pc = [t \in Threads |-> Home(t)]
  /\ \E device \in NameInputs, distro \in FamilyInputs, repo_only \in BOOLEAN :
       frame = [t \in Threads |->
                  IF t \in Requests
                    THEN [NoFrame EXCEPT !.device = device, !.arg = distro,
                                         !.repo_only = repo_only]
                    ELSE NoFrame]
  /\ executed = {}
  /\ logs = [n \in HostNames |-> 0]
  /\ lists = << >>
  /\ runs = << >>
  /\ sent = << >>
  /\ error_notifications_enabled = FALSE

NextCalls ==
  \/ \E t \in Requests : Call_get_update_command(t)
  \/ \E t \in Requests : Call_sanitize_device_name(t)
  \/ \E t \in Requests : Call_return(t)

SpecCalls == InitCalls /\ [][NextCalls]_vars

\* the disk task engine while the process stays up, with every thread that
\* has a step to take taking it in the end: the worker threads and the
\* request threads inside start_format, start_smart and stop_task run under
\* the scheduler of the operating system, and every command ends with one of
\* its outcomes; no request has to arrive
NextLive ==
  \/ \E t \in Requests, d \in DeviceInputs, fs \in FsInputs : Call_start_format(t, d, fs)
  \/ \E t \in Requests : StartFormat_thread(t)
  \/ \E t \in Requests : StartFormat_return(t)
  \/ \E id \in IdInputs : FormatWorker_sanitize(id)
  \/ \E id \in IdInputs, o \in CmdOutcomes : FormatWorker_wipefs(id, o)
  \/ \E id \in IdInputs, o \in CmdOutcomes : FormatWorker_mkfs(id, o)
  \/ \E id \in IdInputs : FormatWorker_update_op(id)
  \/ \E t \in Requests, d \in DeviceInputs, m \in ModeInputs : Call_start_smart(t, d, m)
  \/ \E t \in Requests, o \in CmdOutcomes : StartSmart_run(t, o)
  \/ \E t \in Requests : StartSmart_log_op(t)
  \/ \E t \in Requests, id \in IdInputs : StopTask_call(t, id)
  \/ \E t \in Requests : StopTask_commit(t)
  \/ \E t \in Requests : ClearHistory(t)
  \/ \E t \in Requests, id \in IdInputs : GetTaskStatus(t, id)

\* a step of the format_worker thread of row id
WorkerStep(id) ==
  \/ FormatWorker_sanitize(id)
  \/ \E o \in CmdOutcomes : FormatWorker_wipefs(id, o)
  \/ \E o \in CmdOutcomes : FormatWorker_mkfs(id, o)
  \/ FormatWorker_update_op(id)

\* a step of request thread t inside a call it has entered
ThreadStep(t) ==
  \/ StartFormat_thread(t)
  \/ StartFormat_return(t)
  \/ \E o \in CmdOutcomes : StartSmart_run(t, o)
  \/ StartSmart_log_op(t)
  \/ StopTask_commit(t)

Fairness ==
  /\ \A id \in IdInputs : WF_vars(WorkerStep(id))
  /\ \A t \in Requests : WF_vars(ThreadStep(t))

SpecLive == Init /\ [][NextLive]_vars /\ Fairness

\* ======================================================================
\* Properties
\* ======================================================================
Finalized(status) == status \in {"OK", "FAIL", "STOPPED"}
Rejected(device) == ~sanitize_device_name(device).ok

\* C1 (as claimed): at the step in which start_format returns, the row with
\* the returned id is in the table with the submitted subject, status RUNNING
\* and progress 0.
C1_RunningAtReturn ==
  [][\A t \in Threads :
       StartFormat_return(t) =>
         /\ frame[t].op_id \in DOMAIN operations'
         /\ operations'[frame[t].op_id].device = frame[t].device
         /\ operations'[frame[t].op_id].status = "RUNNING"
         /\ operations'[frame[t].op_id].progress = 0]_vars

\* C1 (amended): the submission step of start_format (log_op) adds exactly one
\* row, under an id that is not in the table and was never assigned, with the
\* submitted subject, kind FORMAT_<fs>, status RUNNING and progress 0, keeps
\* every existing row as it was, and that id is the one start_format returns.
C1_SubmissionAddsOneRunningRow ==
  [][\A t \in Threads, d \in DeviceInputs, fs \in FsInputs :
       Call_start_format(t, d, fs) =>
         LET id == frame'[t].op_id IN
         /\ id \notin DOMAIN operations
         /\ id \notin created
         /\ DOMAIN operations' = DOMAIN operations \cup {id}
         /\ operations'[id] = [device |-> d, action |-> <<"FORMAT", fs>>,
                               status |-> "RUNNING", progress |-> 0]
         /\ \A i \in DOMAIN operations : operations'[i] = operations[i]]_vars

\* C1 witness: a submission has just added its row beside an older row of the
\* same subject that is still running.
C1_Witness ==
  \E t \in Threads :
    /\ pc[t] = "sf_thread"
    /\ \E i \in DOMAIN operations :
         /\ i # frame[t].op_id
         /\ operations[i].device = frame[t].device
         /\ operations[i].status = "RUNNING"

C3_NoRowForRejectedName ==
  [][\A id \in DOMAIN operations' \ DOMAIN operations :
       ~Rejected(operations'[id].device)]_vars

C5_FinalizedStatusIsStable ==
  [][\A id \in DOMAIN operations \cap DOMAIN operations' :
       Finalized(operations[id].status) =>
         <<operations'[id].status, operations'[id].progress>> = get_task_status(id)]_vars

\* C6: the commit of stop_task(id) sets the status of row id to STOPPED and
\* leaves that row's other columns, every other row, the set of rows and all
\* worker threads as they were; without a row id the table is unchanged.
C6_StopTaskFrame ==
  [][\A t \in Threads :
       StopTask_commit(t) =>
         LET id == frame[t].op_id IN
         /\ DOMAIN operations' = DOMAIN operations
         /\ \A i \in DOMAIN operations :
              operations'[i] = IF i = id
                                 THEN [device |-> operations[i].device,
                                       action |-> operations[i].action,
                                       status |-> "STOPPED",
                                       progress |-> operations[i].progress]
                                 ELSE operations[i]
         /\ id \notin DOMAIN operations => operations' = operations
         /\ workers' = workers]_vars

\* C6 witness: a row is STOPPED with progress 100 (stopped after its worker
\* finalized OK) while another row's worker is still running.
C6_Witness ==
  /\ \E i \in DOMAIN operations :
       operations[i].status = "STOPPED" /\ operations[i].progress = 100
  /\ \E j \in DOMAIN workers : j \in DOMAIN operations /\ operations[j].status = "RUNNING"

\* threads with a write to row id issued and not yet committed
WritersInFlight(id) ==
  {<<"format_worker", w>> : w \in {w \in DOMAIN workers :
       w = id /\ workers[w].pc \in {"update_ok", "update_fail"}}}
  \cup {<<"request", t>> : t \in {t \in Threads :
       pc[t] = "stop_commit" /\ frame[t].op_id = id}}

\* C7 (as claimed): every write in flight to a row is issued by the format
\* worker that owns the row, and no row has two writes in flight.
C7_SingleWriterPerRow ==
  \A id \in DOMAIN operations :
    /\ WritersInFlight(id) \subseteq {<<"format_worker", id>>}
    /\ Cardinality(WritersInFlight(id)) <= 1

\* C8 (as claimed): start_format and start_smart return while the command they
\* submitted (mkfs, smartctl -t) has not ended.
CommandEnded(t) ==
  IF pc[t] = "sf_return"
    THEN frame[t].op_id \in DOMAIN workers /\ workers[frame[t].op_id].pc = "update_ok"
    ELSE pc[t] = "ss_log_op"
C8_ReturnsBeforeCommandEnds ==
  [][\A t \in Threads :
       (StartFormat_return(t) \/ StartSmart_log_op(t)) => ~CommandEnded(t)]_vars

\* C9 (as claimed): the step that submits an update run adds one row with
\* status RUNNING and progress 0 to the operations table, and the step in
\* which the run ends leaves a row that is OK with progress 100 when the
\* update command exited 0 and FAIL otherwise.
C9_UpdateRunHasOperationRow ==
  [][/\ \A t \in Requests :
          Update_thread(t) =>
            \E id \in DOMAIN operations' \ DOMAIN operations :
              operations'[id].status = "RUNNING" /\ operations'[id].progress = 0
     /\ \A r \in DOMAIN runs :
          (RunUpdate_finally(r) \/ RunLocalUpdate_finally(r)) =>
            \E id \in DOMAIN operations' :
              IF runs[r].exit_status = "exit_0"
                THEN operations'[id].status = "OK" /\ operations'[id].progress = 100
                ELSE operations'[id].status = "FAIL"]_vars

\* C10: every id given to a new row is greater than every id ever assigned
\* before, whether that row is still in the table, was deleted by
\* clear_history, or was created before a restart.
C10_IdsStrictlyIncrease ==
  [][\A id \in DOMAIN operations' \ DOMAIN operations :
       \A old \in created : id > old]_vars

\* C10 witness: the table holds a row whose id follows the id of a row that
\* clear_history has deleted.
C10_Witness ==
  \E id \in DOMAIN operations :
    \E old \in created \ DOMAIN operations : old < id

\* C11: a step that is not clear_history deletes no row of the operations
\* table, and a restart leaves the table, every column of every row, as it
\* was.
C11_RowsDeletedOnlyByClearHistory ==
  [][/\ (\A t \in Threads : ~ClearHistory(t)) => DOMAIN operations \subseteq DOMAIN operations'
     /\ Restart => operations' = operations]_vars

\* C11 witness: a FORMAT row is still RUNNING though no worker thread and no
\* pending Thread.start() exists for it: the process was restarted under it.
C11_Witness ==
  \E id \in DOMAIN operations :
    /\ operations[id].action[1] = "FORMAT"
    /\ operations[id].status = "RUNNING"
    /\ id \notin DOMAIN workers
    /\ \A t \in Threads : ~(pc[t] = "sf_thread" /\ frame[t].op_id = id)

\* C12: in every reachable state each row of the operations table has a
\* status among RUNNING, OK, FAIL, STOPPED and a progress of 0 or 100; a
\* RUNNING or FAIL row has progress 0 and an OK row has progress 100.
C12_StatusProgressDomain ==
  \A id \in DOMAIN operations :
    /\ operations[id].status \in {"RUNNING", "OK", "FAIL", "STOPPED"}
    /\ operations[id].progress \in {0, 100}
    /\ operations[id].status \in {"RUNNING", "FAIL"} => operations[id].progress = 0
    /\ operations[id].status = "OK" => operations[id].progress = 100

\* C12 witness: the table holds an OK row and a FAIL row at once.
C12_Witness ==
  \E i, j \in DOMAIN operations :
    operations[i].status = "OK" /\ operations[j].status = "FAIL"

\* C13: when a thread inside sync_disks reads the auto-mode flag as off, its
\* next step is the return of sync_disks: that step creates no row, starts no
\* worker and runs no command, whatever new devices the sync has observed.
C13_NoAutoSubmissionWhileOff ==
  [][\A t \in Threads :
       (pc[t] = "sync_auto" /\ ~auto_enabled /\ pc'[t] # pc[t]) =>
         /\ pc'[t] = Home(t)
         /\ operations' = operations
         /\ sqlite_sequence' = sqlite_sequence
         /\ workers' = workers
         /\ executed' = executed]_vars

\* C13 witness: a sync has observed a new device that is not excluded and is
\* about to read the flag, which is off.
C13_Witness ==
  \E t \in Threads :
    /\ pc[t] = "sync_auto"
    /\ ~auto_enabled
    /\ frame[t].new_devices # << >>

\* C14 (as claimed): with the flag on, a sync takes as its new devices
\* exactly the devices it observes for the first time that are not excluded,
\* and it follows the format submission of each of them by the SMART submission:
\* the step after the return of start_format is the run of smartctl -t, and
\* the last step of start_smart adds one SMART_SHORT row for that device.
C14_AutoSubmitsFormatThenSmart ==
  [][\A t \in Threads :
       /\ (pc[t] = "sync_txn" /\ pc'[t] = "sync_auto" /\ auto_enabled) =>
            {frame'[t].new_devices[i] : i \in DOMAIN frame'[t].new_devices}
              = {d \in DOMAIN disks' \ DOMAIN disks : ~AutoSkipped(d)}
       /\ (pc[t] = "sync_smart" /\ pc'[t] # pc[t]) => pc'[t] = "ss_run"
       /\ (pc[t] = "ss_log_op" /\ frame[t].in_sync /\ pc'[t] # pc[t]) =>
            \E id \in DOMAIN operations' \ DOMAIN operations :
              operations'[id] = [device |-> Head(frame[t].new_devices),
                                 action |-> <<"SMART", "SHORT">>,
                                 status |-> "RUNNING", progress |-> 0]]_vars

\* C15 (as claimed): the poller thread never ends: whatever fails inside a
\* cycle, the thread is still in its loop, asleep or at work.
C15_PollerNeverTerminates ==
  pc[Poller] # "dead"

\* the run most recently submitted for a host name (0: none)
LatestRun(name) ==
  IF \E r \in DOMAIN runs : runs[r].name = name
    THEN CHOOSE r \in DOMAIN runs :
           runs[r].name = name /\ \A q \in DOMAIN runs : runs[q].name = name => q <= r
    ELSE 0

\* the list the progress route shows for a host name
VisibleLog(name) == IF logs[name] = 0 THEN << >> ELSE lists[logs[name]]

\* C16 (as claimed): every line of the log visible for a host name was
\* emitted by the run most recently submitted for that name, and every step
\* changes a list object only by appending to it.
C16_VisibleLogOfLatestRunOnly ==
  /\ [](\A name \in HostNames :
          \A i \in DOMAIN VisibleLog(name) : VisibleLog(name)[i][1] = LatestRun(name))
  /\ [][\A l \in DOMAIN lists :
          /\ l \in DOMAIN lists'
          /\ Len(lists'[l]) >= Len(lists[l])
          /\ SubSeq(lists'[l], 1, Len(lists[l])) = lists[l]]_vars

\* the session a thread holds is released (or it never had one)
Released(ssh) == ssh \in {"None", "closed"}

\* C17: when run_update or detect_os_remote has returned, the SSH client it
\* created, connected or not, has been closed, whatever path led to the
\* return.
C17_SessionClosedOnEveryPath ==
  /\ \A r \in DOMAIN runs : runs[r].pc = "returned" => Released(runs[r].ssh)
  /\ \A t \in Threads : pc[t] = "detect_return" => Released(frame[t].ssh)

\* C17 witness: an update run that failed in the middle of reading the
\* command's output has returned with its session closed, and a detection that
\* had connected is returning with its session closed.
C17_Witness ==
  /\ \E r \in DOMAIN runs :
       /\ runs[r].pc = "returned"
       /\ runs[r].ssh = "closed"
       /\ \E i \in DOMAIN lists[runs[r].log_list] :
            lists[runs[r].log_list][i] = <<r, "Exception">>
  /\ \E t \in Threads : pc[t] = "detect_return" /\ frame[t].ssh = "closed"

\* the log lines that report an error
ErrorLines ==
  {"AuthenticationException", "SSHException", "Exception", "OSError",
   "FileNotFoundError", "PermissionError", "ValueError",
   "Could not detect operating system", "Unsupported distribution",
   "Update finished with exit code"}

\* the messages run r has appended to the list it was given
Emitted(r) ==
  {lists[runs[r].log_list][i][2] :
     i \in {i \in DOMAIN lists[runs[r].log_list] : lists[runs[r].log_list][i][1] = r}}

\* some step of run r can be taken
RunStep(r) ==
  \/ RunUpdate_enter(r)
  \/ \E outcome \in ConnectOutcomes : RunUpdate_connect(r, outcome)
  \/ \E outcome \in DetectOutcomes : RunUpdate_detect(r, outcome)
  \/ \E outcome \in {"started", "SSHException"}, n \in 0..MaxLines : RunUpdate_exec(r, outcome, n)
  \/ \E outcome \in {"line", "Exception"} : RunUpdate_readline(r, outcome)
  \/ \E status \in ExitOutcomes : RunUpdate_exit_status(r, status)
  \/ RunUpdate_finally(r)
  \/ \E outcome \in LocalDetectOutcomes : RunLocalUpdate_detect(r, outcome)
  \/ \E outcome \in {"started", "OSError"}, n \in 0..MaxLines : RunLocalUpdate_popen(r, outcome, n)
  \/ RunLocalUpdate_readline(r)
  \/ \E status \in ExitOutcomes : RunLocalUpdate_wait(r, status)
  \/ RunLocalUpdate_finally(r)

\* C18: no update run ends by an exception leaving run_update; a run that
\* has not returned can take a step; a run that has returned either logged
\* the success line after exit status 0, or is marked failed and has
\* appended an error line to the list it was given.
C18_FailuresEndInFailedOutcome ==
  \A r \in DOMAIN runs :
    /\ runs[r].pc # "raised"
    /\ runs[r].pc # "returned" => ENABLED RunStep(r)
    /\ runs[r].pc = "returned" =>
         IF "Update completed successfully" \in Emitted(r)
           THEN ~runs[r].error_occurred /\ runs[r].exit_status = "exit_0"
                /\ Emitted(r) \cap ErrorLines = {}
           ELSE runs[r].error_occurred /\ Emitted(r) \cap ErrorLines # {}

\* C18 witness: one run has returned after a failed detection and another
\* after a connection error that is no paramiko error.
C18_Witness ==
  \E r, q \in DOMAIN runs :
    /\ runs[r].pc = "returned" /\ "Could not detect operating system" \in Emitted(r)
    /\ runs[q].pc = "returned" /\ "Exception" \in Emitted(q) /\ runs[q].distro = ""
       /\ "Connected" \notin Emitted(q)

\* run r has handed an update command to its target
Executing(r) ==
  \/ runs[r].pc \in {"exec", "read", "exit_status", "local_exec", "local_read", "local_wait"}
  \/ runs[r].cmd # << >>
  \/ runs[r].exit_status # "none"
  \/ "Executing update command" \in Emitted(r)

\* C19: a run hands a command to its target only when the detected family
\* is in the supported set, and the command is the one get_update_command
\* gives for that family; a run that returns with no family or a family
\* outside the set has executed nothing and is marked failed.
C19_CommandOnlyForSupportedFamily ==
  \A r \in DOMAIN runs :
    /\ Executing(r) =>
         /\ runs[r].distro \in SUPPORTED_DISTRIBUTIONS
         /\ runs[r].cmd # << >>
         /\ runs[r].cmd = get_update_command(runs[r].distro, runs[r].repo_only).cmd
    /\ (runs[r].pc = "returned" /\ runs[r].distro \notin SUPPORTED_DISTRIBUTIONS) =>
         ~Executing(r) /\ runs[r].error_occurred

\* C19 witness: one run has returned failed after detecting a family outside
\* the set, another after detecting nothing, neither having executed a command.
C19_Witness ==
  \E r, q \in DOMAIN runs :
    /\ runs[r].pc = "returned" /\ runs[r].distro = "gentoo"
       /\ "Unsupported distribution" \in Emitted(r)
    /\ runs[q].pc = "returned" /\ "Could not detect operating system" \in Emitted(q)
       /\ "Disconnected" \in Emitted(q)

\* addresses: the four loopback forms, case variants of them, near misses
\* and the empty address
AddressInputs ==
  LOCALHOST_IDENTIFIERS \cup
  { <<"L","O","C","A","L","H","O","S","T">>, <<"L","o","c","a","l","H","o","s","t">>,
    <<"l","o","c","a","l","h","o","s","t",".">>, <<" ","l","o","c","a","l","h","o","s","t">>,
    <<"l","o","c","a","l">>, <<"1","2","7",".","0",".","0",".","2">>,
    <<"1","0",".","0",".","0",".","5">>, <<":",":">>, << >> }

\* two characters are the same letter in either case, or the same character
SameIgnoringCase(a, b) ==
  \/ a = b
  \/ \E k \in 1..Len(UpperCase) : {a, b} = {UpperCase[k], LowerCase[k]}

\* the address is one of the four loopback forms, compared case-insensitively
Loopback(host) ==
  /\ host # << >>
  /\ \E l \in { <<"l","o","c","a","l","h","o","s","t">>, <<"1","2","7",".","0",".","0",".","1">>,
                <<":",":","1">>, <<"0",".","0",".","0",".","0">> } :
       /\ Len(l) = Len(host)
       /\ \A i \in 1..Len(l) : SameIgnoringCase(host[i], l[i])

\* is_localhost agrees with the case-insensitive comparison on every input
IsLocalhostOnInputs == \A h \in AddressInputs : is_localhost(h) <=> Loopback(h)

\* C20: is_localhost holds exactly for the four loopback forms in any case;
\* a run or a detection whose address is one of them holds no SSH client, and
\* one whose address is not is never on the in-process path.
C20_InProcessExactlyForLoopback ==
  /\ IsLocalhostOnInputs
  /\ \A r \in DOMAIN runs :
       /\ runs[r].ssh # "None" => ~Loopback(runs[r].host)
       /\ (runs[r].pc \in {"local_detect", "local_exec", "local_read", "local_wait",
                           "local_finally"}
           \/ (runs[r].pc = "returned" /\ runs[r].ssh = "None")) => Loopback(runs[r].host)
  /\ \A t \in Threads :
       /\ frame[t].ssh # "None" => ~Loopback(hosts[frame[t].arg])
       /\ pc[t] = "detect_local" => Loopback(hosts[frame[t].arg])
       /\ (pc[t] = "detect_return" /\ frame[t].ssh = "None") => Loopback(hosts[frame[t].arg])

\* C20 witness: a run for the address LocalHost is reading the output of its
\* local command while a detection of 10.0.0.5 holds an open SSH session.
C20_Witness ==
  /\ \E r \in DOMAIN runs :
       runs[r].pc = "local_read" /\ runs[r].host = <<"L","o","c","a","l","H","o","s","t">>
  /\ \E t \in Threads : pc[t] = "detect_probe" /\ frame[t].ssh = "open"
\* C21: a direct call of get_update_command returns a (command, description)
\* pair exactly when the family is one of the six of SUPPORTED_DISTRIBUTIONS,
\* whatever repo_only is, and raises ValueError for every other family; the
\* call creates no row, starts no worker or run and executes nothing.
C21_PairExactlyForSupportedFamilies ==
  [][\A t \in Threads :
       Call_get_update_command(t) =>
         LET r == frame'[t].result IN
         /\ r.ok <=> frame[t].arg \in {"ubuntu", "debian", "fedora", "centos", "arch", "windows"}
         /\ frame[t].arg \in SUPPORTED_DISTRIBUTIONS <=> r.ok
         /\ r.ok => (r.cmd # << >> /\ r.desc # "Unsupported distribution")
         /\ ~r.ok => (r.cmd = << >> /\ r.desc = "Unsupported distribution")
         /\ UNCHANGED <<operations, sqlite_sequence, workers, executed, runs, lists>>]_vars

\* C21 witness: a call for the family unknown_family has ended in the
\* ValueError, with the operations table empty.
C21_Witness ==
  \E t \in Threads :
    /\ pc[t] = "guc_done"
    /\ frame[t].arg = "unknown_family"
    /\ ~frame[t].result.ok
    /\ operations = << >>

\* the words occur in the command line, one after the other
Contains(cmd, words) ==
  \E i \in 1..Len(cmd) :
    /\ i + Len(words) - 1 <= Len(cmd)
    /\ SubSeq(cmd, i, i + Len(words) - 1) = words

\* the update mechanism that is native to a family
NativeMechanism(family) ==
  CASE family \in {"ubuntu", "debian"} -> <<"apt-get">>
    [] family = "fedora" -> <<"dnf">>
    [] family = "centos" -> <<"yum">>
    [] family = "arch" -> <<"pacman">>
    [] family = "windows" -> <<"Get-WindowsUpdate">>

\* the flag that restricts the repo-only command of a Linux family
RestrictingFlag(family) ==
  CASE family \in {"ubuntu", "debian"} -> <<"--force-confold">>
    [] family \in {"fedora", "centos"} -> <<"tsflags", "=", "noscripts">>
    [] family = "arch" -> <<"--needed">>

\* C22: the command returned for a supported family, in either mode, invokes
\* the family's native mechanism (for windows through powershell.exe); the
\* repo-only command of a Linux family carries the family's restricting flag
\* and its full command does not; the windows repo-only command mentions
\* winget nowhere and the windows full command holds both Get-WindowsUpdate
\* and winget upgrade.
C22_NativeCommandWithModeFlags ==
  [][\A t \in Threads :
       (Call_get_update_command(t) /\ frame'[t].result.ok) =>
         LET family == frame[t].arg
             cmd == frame'[t].result.cmd
             full == get_update_command(family, FALSE).cmd
         IN  /\ Contains(cmd, NativeMechanism(family))
             /\ Contains(full, NativeMechanism(family))
             /\ family # "windows" =>
                  /\ Contains(cmd, <<"sudo">>)
                  /\ Contains(cmd, RestrictingFlag(family)) <=> frame[t].repo_only
                  /\ ~Contains(full, RestrictingFlag(family))
             /\ family = "windows" =>
                  /\ Contains(cmd, <<"powershell.exe", "-Command">>)
                  /\ Contains(cmd, <<"winget">>) <=> ~frame[t].repo_only
                  /\ Contains(cmd, <<"winget", "upgrade">>) <=> ~frame[t].repo_only
                  /\ Contains(full, <<"Get-WindowsUpdate">>)
                  /\ Contains(full, <<"winget", "upgrade">>)]_vars

\* C22 witness: a call for windows in repo-only mode has returned a command
\* with Get-WindowsUpdate in it.
C22_Witness ==
  \E t \in Threads :
    /\ pc[t] = "guc_done"
    /\ frame[t].arg = "windows"
    /\ frame[t].repo_only
    /\ frame[t].result.ok
    /\ Contains(frame[t].result.cmd, <<"Get-WindowsUpdate">>)

\* a name of 1 to 255 characters, each a letter, a digit, a hyphen or an
\* underscore
AllowedName(device) ==
  /\ Len(device) >= 1
  /\ Len(device) <= MaxNameLen
  /\ \A i \in 1..Len(device) : device[i] \in SafeChars

\* C23 (as claimed): sanitize_device_name returns its argument unchanged
\* exactly when the argument has 1 to 255 characters, all of them letters,
\* digits, hyphens or underscores, and raises ValueError for every other
\* argument, a name with a newline at its end among them.
C23_AcceptsExactlyAllowedNames ==
  [][\A t \in Threads :
       Call_sanitize_device_name(t) =>
         LET r == frame'[t].result IN
         /\ r.ok <=> AllowedName(frame[t].device)
         /\ r.ok => r.value = frame[t].device
         /\ ~r.ok => r.value = "ValueError"]_vars

\* row id is in the table with status RUNNING
RunningRow(id) == id \in DOMAIN operations /\ operations[id].status = "RUNNING"

\* C24 (as claimed): under fair scheduling and with commands that end, every
\* row that start_format or start_smart created and that is RUNNING is
\* later not RUNNING any more (it is OK, FAIL or STOPPED, or was deleted),
\* whether or not a stop request arrives.
C24_RunningRowsAreFinalized ==
  \A id \in IdInputs : RunningRow(id) ~> ~RunningRow(id)

\* C25 (as claimed): when the worker of a format submitted with a filesystem
\* outside ext4, xfs and fat32 finalizes its row, the row becomes FAIL with
\* progress 0 and the worker has run no command: the filesystem is checked
\* before wipefs.
C25_UnknownFsFailsBeforeAnyCommand ==
  [][\A id \in IdInputs :
       (/\ FormatWorker_update_op(id)
        /\ id \in DOMAIN operations
        /\ workers[id].fs \notin {"ext4", "xfs", "fat32"}) =>
         /\ operations'[id].status = "FAIL"
         /\ operations'[id].progress = 0
         /\ workers[id].rcs = << >>]_vars

\* the FORMAT rows of a device; where only sync_disks submits, every one of
\* them was submitted automatically
FormatRows(d) ==
  {id \in DOMAIN operations : operations[id].device = d /\ operations[id].action[1] = "FORMAT"}

\* C26 (as claimed): a device is observed for the first time once, when its
\* row enters the disks table, and no device ever has two automatically
\* submitted FORMAT rows, however the executions of sync_disks by the poller
\* and by the disk page interleave.
C26_OneAutoFormatPerDevice ==
  \A d \in AttachInputs : Cardinality(FormatRows(d)) <= 1

\* C27 (as claimed): every device with an automatically submitted FORMAT row
\* was first attached while auto mode was on; a device first attached
\* while the flag was off is never auto-formatted, also after the flag is
\* turned on, whether or not sync_disks ran in between.
C27_AutoOnlyForDevicesAttachedWhileOn ==
  \A d \in AttachInputs :
    FormatRows(d) # {} => (d \in DOMAIN first_attach /\ first_attach[d])

\* C28 (as claimed): the transaction of sync_disks keeps every row of the
\* disks table with the first_seen it had, and a device whose row goes from
\* present = 0 back to present = 1 is not among the new devices of that
\* sync, so nothing is submitted for it.
C28_ReappearingDeviceIsNotNew ==
  [][\A t \in Threads :
       (pc[t] = "sync_txn" /\ pc'[t] = "sync_auto") =>
         \A d \in DOMAIN disks :
           /\ d \in DOMAIN disks'
           /\ disks'[d].first_seen = disks[d].first_seen
           /\ (disks[d].present = 0 /\ disks'[d].present = 1) =>
                \A i \in DOMAIN frame'[t].new_devices : frame'[t].new_devices[i] # d]_vars

\* C29 (as claimed): the error notifier is called at most once per update
\* run and never for a run that has not failed; the step in which a failed
\* run returns while error notifications are enabled leaves it with exactly
\* one call.
C29_NotifierCalledOncePerFailedRun ==
  /\ [](\A r \in DOMAIN runs :
          /\ sent[r] <= 1
          /\ sent[r] > 0 => runs[r].error_occurred)
  /\ [][\A r \in DOMAIN runs :
          (/\ runs[r].pc # "returned"
           /\ r \in DOMAIN runs'
           /\ runs'[r].pc = "returned"
           /\ runs[r].error_occurred
           /\ error_notifications_enabled) => sent'[r] = 1]_vars

\* C30: a format worker that finalizes a row id that is not in the table,
\* and the commit of stop_task on such an id, leave the operations table
\* as it was: no row is created; and an id once deleted is not given to a
\* later submission, so the late write cannot reach a row of another
\* submission.
C30_WriteToDeletedIdCreatesNoRow ==
  [][/\ \A id \in IdInputs :
          (FormatWorker_update_op(id) /\ id \notin DOMAIN operations) =>
            operations' = operations
     /\ \A t \in Threads :
          (StopTask_commit(t) /\ frame[t].op_id \notin DOMAIN operations) =>
            operations' = operations
     /\ \A id \in DOMAIN operations' \ DOMAIN operations :
          /\ id \notin created
          /\ id \notin DOMAIN workers]_vars

\* C30 witness: clear_history has deleted the row of a format worker that
\* is about to finalize it, and a later submission has its own row.
C30_Witness ==
  \E id \in DOMAIN workers :
    /\ workers[id].pc \in {"update_ok", "update_fail"}
    /\ id \notin DOMAIN operations
    /\ \E later \in DOMAIN operations : later > id
====
